---- MODULE Spec2Model ----
(***************************************************************************)
(* PCAP analysis module of the WebSecurity service                         *)
(* (src/modules/pcap/service.py): the SYN-flood detector detect_syn_flood, *)
(* the aggregator analyze_packets and the display classifier               *)
(* get_protocol_name, as operators over a parsed capture, and the          *)
(* specifications that apply them to bounded families of captures.         *)
(*                                                                         *)
(* Representation.  A packet is a record: its layers (haslayer), the       *)
(* fields of its IP, TCP and UDP layers, its capture time in microseconds  *)
(* (packet.time; pcap stores microseconds) and its length (len(packet)).   *)
(* A Python dict / Counter / defaultdict is a record [keys, val]: keys is  *)
(* the sequence of keys in insertion order (the order Python iterates and  *)
(* Counter.most_common breaks ties by), val the mapping.  A float that the *)
(* code rounds is kept as the integer number of its last decimal place     *)
(* (ack_ratio in hundredths, duration in hundredths of a second,           *)
(* relative_time in milliseconds).                                         *)
(***************************************************************************)
EXTENDS Integers, Sequences, FiniteSets, TLC

VARIABLES packets, pc, analysis, detections,
          SCAPY_AVAILABLE, file, fault, file_pos, tmp_file, tmp_path,
          response, health_response, calls,
          documents, runs, mongo, users

\* The state of a request to the router: the import flag, the upload and how
\* far it is read, the exception the environment raises (if any), the
\* temporary file and the local holding its name, the responses, and the
\* number of calls made so far (reads of the upload, temporary files created,
\* calls of the parser, calls of the health route).
reqvars == <<SCAPY_AVAILABLE, file, fault, file_pos, tmp_file, tmp_path,
             response, health_response, calls>>

\* The state outside the router of captures: the documents handed to the
\* persistence collaborator, the invocations of the two analysis functions
\* that are in progress, the module state of core/db/mongodb.py, and the
\* users collection with the registrations in progress.
libvars == <<documents, runs, mongo, users>>

vars == <<packets, pc, analysis, detections, reqvars, libvars>>

\* The value of a result before the call that computes it; pc tells which
\* calls have returned ("loaded": the capture is parsed and nothing else).
NotRun == "not_run"

\* Python's None where the other values are strings (sequences of characters):
\* a sequence that is no string.
None == <<"None">>

\* The two collections of the persistence collaborator before anything is
\* saved, with the number of results handed to it.
NoDocuments == [saves |-> 0, analyses |-> <<>>, threats |-> <<>>]

\* _client of core/db/mongodb.py when it is None.
NoClient == [made |-> FALSE]

\* The module core/db/mongodb.py after import, in an environment without
\* MONGODB_URI, before any call.
NoMongo == [client |-> NoClient, environ |-> <<>>, calls |-> 0,
            last |-> [call |-> "none"]]

\* The users collection and the registrations in progress, before the
\* database is loaded.
NoUsers == [available |-> FALSE, docs |-> <<>>, reqs |-> <<>>]

\* No invocation of the analysis functions is in progress.
NoRuns == [invs |-> <<>>, frames |-> <<>>]

\* Nothing of the state outside the router of captures is in use.
NoLibrary ==
    /\ documents = NoDocuments
    /\ runs = NoRuns
    /\ mongo = NoMongo
    /\ users = NoUsers

\* The function called directly, outside a request.
NoRequest ==
    /\ NoLibrary
    /\ SCAPY_AVAILABLE = TRUE
    /\ file = NotRun
    /\ fault = "none"
    /\ file_pos = 0
    /\ tmp_file = [exists |-> FALSE, size |-> 0]
    /\ tmp_path = None
    /\ response = NotRun
    /\ health_response = NotRun
    /\ calls = [read |-> 0, tmp |-> 0, rdpcap |-> 0, health |-> 0]

(***************************************************************************)
(* Packets                                                                 *)
(***************************************************************************)
IP == "IP"
TCP == "TCP"
UDP == "UDP"
ICMP == "ICMP"
ARP == "ARP"
DNS == "DNS"

haslayer(packet, layer) == layer \in packet.layers

\* A frame with none of the layers the module looks at.
RawPkt ==
    [time |-> 0, len |-> 60, layers |-> {}, src |-> "N/A", dst |-> "N/A",
     tcp_sport |-> 0, tcp_dport |-> 0, flags |-> 0,
     udp_sport |-> 0, udp_dport |-> 0]

TcpPkt(src, dst, sport, dport, flags) ==
    [RawPkt EXCEPT !.layers = {IP, TCP}, !.src = src, !.dst = dst,
                   !.tcp_sport = sport, !.tcp_dport = dport, !.flags = flags]

UdpPkt(src, dst, sport, dport) ==
    [RawPkt EXCEPT !.layers = {IP, UDP}, !.src = src, !.dst = dst,
                   !.udp_sport = sport, !.udp_dport = dport]

\* TCP/UDP carried by something other than IPv4 (IPv6): haslayer(IP) is false.
WithoutIP(packet) ==
    [packet EXCEPT !.layers = @ \ {IP}, !.src = "N/A", !.dst = "N/A"]

(***************************************************************************)
(* Python helpers                                                          *)
(***************************************************************************)
\* The empty dict.
EmptyDict == [keys |-> <<>>, val |-> <<>>]

\* d.get(k, default)
DictGet(d, k, default) == IF k \in DOMAIN d.val THEN d.val[k] ELSE default

\* d[k] = v: a new key goes to the end of the iteration order.
DictSet(d, k, v) ==
    IF k \in DOMAIN d.val
    THEN [d EXCEPT !.val[k] = v]
    ELSE [keys |-> Append(d.keys, k), val |-> (k :> v) @@ d.val]

\* a & b on non-negative integers.
RECURSIVE BitAnd(_, _)
BitAnd(a, b) ==
    IF a = 0 \/ b = 0 THEN 0
    ELSE (a % 2) * (b % 2) + 2 * BitAnd(a \div 2, b \div 2)

\* round(x / q) to the nearest integer for an integer x and q > 0, an exact
\* half going to the even neighbour.  Python rounds the binary double, so at an
\* exact decimal half the double's representation error decides; the captures
\* drawn below have times on a grid (TimeGrid) on which no half occurs.
RoundDiv(x, q) ==
    LET lo == x \div q
        r2 == 2 * (x % q)
    IN  IF r2 < q THEN lo
        ELSE IF r2 > q THEN lo + 1
        ELSE IF lo % 2 = 0 THEN lo ELSE lo + 1

\* The odd k in 1..39 for which the double nearest k/200 lies above k/200, so
\* that round(k/200, 2) goes up; 25/200 = 0.125 is exact and goes to even
\* (0.12); for the other odd k the double lies below and round goes down.
HalfRoundsUp == {1, 5, 7, 11, 13, 17, 19, 23, 27, 33, 39}

\* round(a / b, 2) in hundredths, for the ratios the detector reports
\* (0 <= a / b < 0.2).
RoundRatio2(a, b) ==
    LET lo == (100 * a) \div b
        r2 == 2 * ((100 * a) % b)
    IN  IF r2 < b THEN lo
        ELSE IF r2 > b THEN lo + 1
        ELSE IF (2 * lo + 1) \in HalfRoundsUp THEN lo + 1 ELSE lo

(***************************************************************************)
(* detect_syn_flood                                                        *)
(***************************************************************************)
SYN_BIT == 2
ACK_BIT == 16
SYN_ACK == 18
MinSynCount == 10
HighSynCount == 50

\* The two accumulators before the first packet.
ScanStart == [syn_packets |-> EmptyDict, syn_ack_counts |-> EmptyDict]

\* ScanPacket with the SYN-ACK test loosened to "SYN and ACK among the bits".
ScanPacket_LooseSynAck(acc, packet) ==
    IF haslayer(packet, TCP) /\ haslayer(packet, IP)
    THEN LET flags == packet.flags IN
         IF BitAnd(flags, SYN_BIT) # 0 /\ ~(BitAnd(flags, ACK_BIT) # 0)
         THEN LET src_ip == packet.src
                  entry == [dst_ip |-> packet.dst,
                            dst_port |-> packet.tcp_dport,
                            time |-> packet.time]
              IN  [acc EXCEPT !.syn_packets =
                       DictSet(@, src_ip, Append(DictGet(@, src_ip, <<>>), entry))]
         ELSE IF BitAnd(flags, SYN_ACK) = SYN_ACK
         THEN LET dst_ip == packet.dst IN
              [acc EXCEPT !.syn_ack_counts =
                   DictSet(@, dst_ip, DictGet(@, dst_ip, 0) + 1)]
         ELSE acc
    ELSE acc

\* ScanPacket with the SYN-ACK counted for its sender instead of its receiver.
ScanPacket_BySender(acc, packet) ==
    IF haslayer(packet, TCP) /\ haslayer(packet, IP)
    THEN LET flags == packet.flags IN
         IF BitAnd(flags, SYN_BIT) # 0 /\ ~(BitAnd(flags, ACK_BIT) # 0)
         THEN LET src_ip == packet.src
                  entry == [dst_ip |-> packet.dst,
                            dst_port |-> packet.tcp_dport,
                            time |-> packet.time]
              IN  [acc EXCEPT !.syn_packets =
                       DictSet(@, src_ip, Append(DictGet(@, src_ip, <<>>), entry))]
         ELSE IF flags = SYN_ACK
         THEN LET dst_ip == packet.src IN
              [acc EXCEPT !.syn_ack_counts =
                   DictSet(@, dst_ip, DictGet(@, dst_ip, 0) + 1)]
         ELSE acc
    ELSE acc

\* One iteration of the packet loop.
ScanPacket(acc, packet) ==
    IF haslayer(packet, TCP) /\ haslayer(packet, IP)
    THEN LET flags == packet.flags IN
         IF BitAnd(flags, SYN_BIT) # 0 /\ ~(BitAnd(flags, ACK_BIT) # 0)
         THEN LET src_ip == packet.src
                  entry == [dst_ip |-> packet.dst,
                            dst_port |-> packet.tcp_dport,
                            time |-> packet.time]
              IN  [acc EXCEPT !.syn_packets =
                       DictSet(@, src_ip, Append(DictGet(@, src_ip, <<>>), entry))]
         ELSE IF flags = SYN_ACK
         THEN LET dst_ip == packet.dst IN
              [acc EXCEPT !.syn_ack_counts =
                   DictSet(@, dst_ip, DictGet(@, dst_ip, 0) + 1)]
         ELSE acc
    ELSE acc

\* The packet loop over packets lo..hi, in order: the loop over the first half
\* of them, then the loop over the rest from where the first ended.  (TLC
\* computes an argument when it is used; the test makes it compute the first
\* half before the second, which keeps the evaluation shallow.)
RECURSIVE ScanRange(_, _, _, _)
ScanRange(pkts, lo, hi, acc) ==
    IF lo > hi THEN acc
    ELSE IF lo = hi THEN ScanPacket(acc, pkts[lo])
    ELSE LET mid == (lo + hi) \div 2
             first == ScanRange(pkts, lo, mid, acc)
         IN  IF first = first THEN ScanRange(pkts, mid + 1, hi, first) ELSE first

\* The packet loop from packet i on.
ScanFrom(pkts, i, acc) == ScanRange(pkts, i, Len(pkts), acc)

ScanPackets(pkts) == ScanFrom(pkts, 1, ScanStart)

\* TargetKey without the port.
TargetKey_NoPort(e) == e.dst_ip

\* f"{e['dst_ip']}:{e['dst_port']}"
TargetKey(e) == e.dst_ip \o ":" \o ToString(e.dst_port)

\* syn_ack_count / syn_count < 0.2.  The quotient is the double nearest the
\* rational and 0.2 the double nearest 1/5; for counts below 2^50 a quotient
\* other than 1/5 differs from it by far more than a rounding error, so the
\* comparison of the doubles is the comparison of the rationals.
RatioBelowFifth_OrEqual(syn_ack_count, syn_count) == 5 * syn_ack_count <= syn_count

RatioBelowFifth(syn_ack_count, syn_count) == 5 * syn_ack_count < syn_count

Severity_FromFifty(syn_count) == IF syn_count >= HighSynCount THEN "high" ELSE "medium"

Severity(syn_count) == IF syn_count > HighSynCount THEN "high" ELSE "medium"

\* The alert loop from key i of syn_packets on.
RECURSIVE AlertsFrom(_, _, _)
AlertsFrom(acc, i, alerts) ==
    IF i > Len(acc.syn_packets.keys) THEN alerts
    ELSE LET src_ip == acc.syn_packets.keys[i]
             entries == acc.syn_packets.val[src_ip]
             syn_count == Len(entries)
             syn_ack_count == DictGet(acc.syn_ack_counts, src_ip, 0)
         IN  IF syn_count = 0 THEN AlertsFrom(acc, i + 1, alerts)
             ELSE IF syn_count >= MinSynCount
                     /\ RatioBelowFifth(syn_ack_count, syn_count)
             THEN LET unique_targets ==
                          {TargetKey(entries[j]) : j \in 1..Len(entries)}
                      alert == [source_ip |-> src_ip,
                                syn_count |-> syn_count,
                                syn_ack_count |-> syn_ack_count,
                                ack_ratio |-> RoundRatio2(syn_ack_count, syn_count),
                                unique_targets |-> Cardinality(unique_targets),
                                severity |-> Severity(syn_count)]
                  IN  AlertsFrom(acc, i + 1, Append(alerts, alert))
             ELSE AlertsFrom(acc, i + 1, alerts)

detect_syn_flood(pkts) == AlertsFrom(ScanPackets(pkts), 1, <<>>)

(***************************************************************************)
(* Captures given to the detector                                          *)
(***************************************************************************)
HostA == "10.0.0.1"
HostB == "10.0.0.2"
HostC == "10.0.0.3"
HostD == "10.0.0.11"

\* Largest number of bare SYNs sent by HostA, and of SYN-ACKs sent to it.
MaxSyn == 60
MaxSynAck == 11

\* Flag bytes with SYN set and ACK clear: SYN, SYN|ECE|CWR, SYN|PSH, SYN|FIN.
BareSynFlags == <<2, 194, 10, 3>>

\* The i-th bare SYN of src.  With spread the targets are pairwise distinct,
\* otherwise they repeat.
SynFrom(src, i, spread) ==
    TcpPkt(src,
           IF i % 3 = 0 THEN HostD ELSE HostC,
           40000 + i,
           IF spread THEN 1000 + i ELSE 1 + (i % 4) * 10,
           BareSynFlags[(i % 4) + 1])

\* The j-th exact SYN-ACK sent to dst, by hosts dst may never have contacted.
SynAckTo(dst, j) ==
    TcpPkt(IF j % 2 = 0 THEN HostB ELSE HostC, dst, 80, 40000 + j, SYN_ACK)

\* Packets that must change no counter of HostA or HostB, and one SYN-ACK
\* addressed to HostC.
Decoys ==
    << TcpPkt(HostC, HostA, 80, 40001, 82),            \* SYN|ACK|ECE
       TcpPkt(HostA, HostC, 80, 40002, SYN_ACK),       \* SYN-ACK sent by HostA
       TcpPkt(HostC, HostA, 80, 40003, ACK_BIT),       \* ACK
       WithoutIP(TcpPkt(HostA, HostC, 40004, 80, SYN_BIT)),
       UdpPkt(HostA, HostC, 40005, 53),
       TcpPkt(HostB, HostA, 443, 40006, 26),           \* SYN|ACK|PSH
       TcpPkt(HostC, HostB, 80, 40007, 274),           \* SYN|ACK|NS
       TcpPkt(HostC, HostA, 80, 40008, 4),             \* RST
       WithoutIP(TcpPkt(HostC, HostA, 80, 40009, SYN_ACK)),
       [RawPkt EXCEPT !.layers = {ARP}] >>

Orders == {"syn_first", "ack_first", "mixed"}
SynsOfB == {0, 10, 11}

\* s1, s2, s1[3], s2[3], ...: the two sequences merged one for one.
RECURSIVE Interleave(_, _)
Interleave(s, t) ==
    IF s = <<>> THEN t
    ELSE IF t = <<>> THEN s
    ELSE <<Head(s), Head(t)>> \o Interleave(Tail(s), Tail(t))

\* s bare SYNs from HostA and k SYN-ACKs to HostA; b bare SYNs from HostB, which
\* receives two SYN-ACKs when it sends any; the decoys unless the order is
\* "syn_first".
SynCapture(s, k, b, order) ==
    LET syns == [i \in 1..s |-> SynFrom(HostA, i, order = "syn_first")]
        acks == [j \in 1..k |-> SynAckTo(HostA, j)]
        ofB  == [i \in 1..b |-> SynFrom(HostB, i, TRUE)]
               \o (IF b > 0 THEN <<SynAckTo(HostB, 1), SynAckTo(HostB, 2)>>
                   ELSE <<>>)
    IN  CASE order = "syn_first" -> syns \o acks \o ofB
          [] order = "ack_first" -> acks \o Decoys \o ofB \o syns
          [] OTHER -> Interleave(Interleave(syns, acks), Interleave(ofB, Decoys))

SynCaptures ==
    {SynCapture(s, k, b, order) :
        s \in 0..MaxSyn, k \in 0..MaxSynAck, b \in SynsOfB, order \in Orders}

(***************************************************************************)
(* Specification: the detector applied to a capture                        *)
(***************************************************************************)
InitDetect ==
    /\ packets \in SynCaptures
    /\ pc = "loaded"
    /\ analysis = NotRun
    /\ detections = NotRun
    /\ NoRequest

DetectSynFlood ==
    /\ pc = "loaded"
    /\ detections' = [syn_flood |-> detect_syn_flood(packets)]
    /\ pc' = "detected"
    /\ UNCHANGED <<packets, analysis, reqvars, libvars>>

NextDetect == DetectSynFlood

SpecDetect == InitDetect /\ [][NextDetect]_vars

(***************************************************************************)
(* get_protocol_name and analyze_packets                                   *)
(***************************************************************************)
\* get_protocol_name with port 443 looked at before port 80.
get_protocol_name_HttpsFirst(packet) ==
    IF haslayer(packet, TCP)
    THEN LET sport == packet.tcp_sport
             dport == packet.tcp_dport
         IN  IF 443 \in {sport, dport} THEN "HTTPS"
             ELSE IF 80 \in {sport, dport} THEN "HTTP"
             ELSE IF 22 \in {sport, dport} THEN "SSH"
             ELSE "TCP"
    ELSE IF haslayer(packet, UDP)
    THEN LET sport == packet.udp_sport
             dport == packet.udp_dport
         IN  IF 53 \in {sport, dport} THEN "DNS" ELSE "UDP"
    ELSE IF haslayer(packet, ICMP) THEN "ICMP"
    ELSE IF haslayer(packet, ARP) THEN "ARP"
    ELSE "Other"

\* The display label.
get_protocol_name(packet) ==
    IF haslayer(packet, TCP)
    THEN LET sport == packet.tcp_sport
             dport == packet.tcp_dport
         IN  IF 80 \in {sport, dport} THEN "HTTP"
             ELSE IF 443 \in {sport, dport} THEN "HTTPS"
             ELSE IF 22 \in {sport, dport} THEN "SSH"
             ELSE "TCP"
    ELSE IF haslayer(packet, UDP)
    THEN LET sport == packet.udp_sport
             dport == packet.udp_dport
         IN  IF 53 \in {sport, dport} THEN "DNS" ELSE "UDP"
    ELSE IF haslayer(packet, ICMP) THEN "ICMP"
    ELSE IF haslayer(packet, ARP) THEN "ARP"
    ELSE "Other"

\* TallyLabel with the DNS layer looked at first.
TallyLabel_DnsFirst(packet) ==
    IF haslayer(packet, DNS) THEN "DNS"
    ELSE IF haslayer(packet, TCP) THEN "TCP"
    ELSE IF haslayer(packet, UDP) THEN "UDP"
    ELSE IF haslayer(packet, ICMP) THEN "ICMP"
    ELSE IF haslayer(packet, ARP) THEN "ARP"
    ELSE "Other"

\* The key of protocol_counter the aggregation loop increments for a packet.
TallyLabel(packet) ==
    IF haslayer(packet, TCP) THEN "TCP"
    ELSE IF haslayer(packet, UDP) THEN "UDP"
    ELSE IF haslayer(packet, ICMP) THEN "ICMP"
    ELSE IF haslayer(packet, ARP) THEN "ARP"
    ELSE IF haslayer(packet, DNS) THEN "DNS"
    ELSE "Other"

\* counter[k] += 1
CounterInc(counter, k) == DictSet(counter, k, DictGet(counter, k, 0) + 1)

PreviewLen == 10
TopTalkersLen == 5

\* The counters before the first packet.
AggStart ==
    [protocol_counter |-> EmptyDict, source_counts |-> EmptyDict,
     dest_counts |-> EmptyDict, total_bytes |-> 0]

\* AggPacket with the tally moved under the IP test.
AggPacket_TallyUnderIP(acc, packet) ==
    LET sized == [acc EXCEPT !.total_bytes = @ + packet.len]
    IN  IF haslayer(packet, IP)
        THEN [sized EXCEPT !.protocol_counter = CounterInc(@, TallyLabel(packet)),
                           !.source_counts = CounterInc(@, packet.src),
                           !.dest_counts = CounterInc(@, packet.dst)]
        ELSE sized

\* AggPacket without the count of destinations.
AggPacket_SourcesOnly(acc, packet) ==
    LET tallied == [acc EXCEPT !.total_bytes = @ + packet.len,
                               !.protocol_counter = CounterInc(@, TallyLabel(packet))]
    IN  IF haslayer(packet, IP)
        THEN [tallied EXCEPT !.source_counts = CounterInc(@, packet.src)]
        ELSE tallied

\* One iteration of the aggregation loop.
AggPacket(acc, packet) ==
    LET tallied == [acc EXCEPT !.total_bytes = @ + packet.len,
                               !.protocol_counter = CounterInc(@, TallyLabel(packet))]
    IN  IF haslayer(packet, IP)
        THEN [tallied EXCEPT !.source_counts = CounterInc(@, packet.src),
                             !.dest_counts = CounterInc(@, packet.dst)]
        ELSE tallied

\* The aggregation loop over packets lo..hi, in order, halved as ScanRange is.
RECURSIVE AggRange(_, _, _, _)
AggRange(pkts, lo, hi, acc) ==
    IF lo > hi THEN acc
    ELSE IF lo = hi THEN AggPacket(acc, pkts[lo])
    ELSE LET mid == (lo + hi) \div 2
             first == AggRange(pkts, lo, mid, acc)
         IN  IF first = first THEN AggRange(pkts, mid + 1, hi, first) ELSE first

\* The aggregation loop from packet i on.
AggFrom(pkts, i, acc) == AggRange(pkts, i, Len(pkts), acc)

\* InsertByCount putting the item before the items of equal count (an unstable
\* sort).
RECURSIVE InsertByCount_BeforeEqual(_, _)
InsertByCount_BeforeEqual(sorted, item) ==
    IF sorted = <<>> THEN <<item>>
    ELSE IF Head(sorted)[2] > item[2]
         THEN <<Head(sorted)>> \o InsertByCount_BeforeEqual(Tail(sorted), item)
         ELSE <<item>> \o sorted

\* item put into a sequence sorted by descending count, behind the items whose
\* count is at least its own.
RECURSIVE InsertByCount(_, _)
InsertByCount(sorted, item) ==
    IF sorted = <<>> THEN <<item>>
    ELSE IF Head(sorted)[2] >= item[2]
         THEN <<Head(sorted)>> \o InsertByCount(Tail(sorted), item)
         ELSE <<item>> \o sorted

\* sorted(counter.items(), key=count, reverse=True): a stable sort, so items of
\* equal count stay in insertion order.
RECURSIVE SortedByCount(_, _, _)
SortedByCount(counter, i, sorted) ==
    IF i > Len(counter.keys) THEN sorted
    ELSE SortedByCount(counter, i + 1,
             InsertByCount(sorted, <<counter.keys[i], counter.val[counter.keys[i]]>>))

\* Counter.most_common(n): heapq.nlargest(n, items, key=count), which returns
\* what sorted(items, key=count, reverse=True)[:n] returns.
most_common(counter, n) ==
    LET all == SortedByCount(counter, 1, <<>>)
    IN  SubSeq(all, 1, IF Len(all) < n THEN Len(all) ELSE n)

\* PacketDetail with the relative time cut to milliseconds instead of rounded.
PacketDetail_CutTime(packet, start_time) ==
    LET rel_time == (packet.time - start_time) \div 1000 IN
    [relative_time |-> rel_time,
     time |-> rel_time,
     source |-> IF haslayer(packet, IP) THEN packet.src ELSE "N/A",
     destination |-> IF haslayer(packet, IP) THEN packet.dst ELSE "N/A",
     protocol |-> get_protocol_name(packet),
     size_bytes |-> packet.len,
     size |-> packet.len]

\* One entry of packet_details.
PacketDetail(packet, start_time) ==
    LET rel_time == RoundDiv(packet.time - start_time, 1000) IN
    [relative_time |-> rel_time,
     time |-> rel_time,
     source |-> IF haslayer(packet, IP) THEN packet.src ELSE "N/A",
     destination |-> IF haslayer(packet, IP) THEN packet.dst ELSE "N/A",
     protocol |-> get_protocol_name(packet),
     size_bytes |-> packet.len,
     size |-> packet.len]

\* analyze_packets with the duration taken from the latest and the earliest time.
analyze_packets_SpanDuration(pkts) ==
    LET total_packets == Len(pkts) IN
    IF total_packets = 0
    THEN [basic_stats |-> [total_packets |-> 0, duration |-> 0,
                           unique_ips |-> 0, total_bytes |-> 0],
          protocol_stats |-> EmptyDict,
          top_talkers |-> <<>>,
          packet_details |-> <<>>]
    ELSE LET start_time == pkts[1].time
             end_time == pkts[Len(pkts)].time
             latest == CHOOSE t \in {pkts[i].time : i \in 1..Len(pkts)} :
                           \A i \in 1..Len(pkts) : pkts[i].time <= t
             earliest == CHOOSE t \in {pkts[i].time : i \in 1..Len(pkts)} :
                             \A i \in 1..Len(pkts) : t <= pkts[i].time
             duration == RoundDiv(latest - earliest, 10000)
             acc == AggFrom(pkts, 1, AggStart)
             all_ips == DOMAIN acc.source_counts.val \cup DOMAIN acc.dest_counts.val
             top_talkers == most_common(acc.source_counts, TopTalkersLen)
             first == SubSeq(pkts, 1, IF Len(pkts) < PreviewLen THEN Len(pkts)
                                      ELSE PreviewLen)
             packet_details == [i \in 1..Len(first) |-> PacketDetail(first[i], start_time)]
         IN  [basic_stats |-> [total_packets |-> total_packets,
                               duration |-> duration,
                               unique_ips |-> Cardinality(all_ips),
                               total_bytes |-> acc.total_bytes],
              protocol_stats |-> acc.protocol_counter,
              top_talkers |-> top_talkers,
              packet_details |-> packet_details]

\* analyze_packets without the return for no packets: packets[0] raises.
analyze_packets_NoEmptyCase(pkts) ==
    LET total_packets == Len(pkts) IN
    IF total_packets = 0
    THEN [exc |-> "IndexError", msg |-> "list index out of range"]
    ELSE LET start_time == pkts[1].time
             end_time == pkts[Len(pkts)].time
             duration == RoundDiv(end_time - start_time, 10000)
             acc == AggFrom(pkts, 1, AggStart)
             all_ips == DOMAIN acc.source_counts.val \cup DOMAIN acc.dest_counts.val
             top_talkers == most_common(acc.source_counts, TopTalkersLen)
             first == SubSeq(pkts, 1, IF Len(pkts) < PreviewLen THEN Len(pkts)
                                      ELSE PreviewLen)
             packet_details == [i \in 1..Len(first) |-> PacketDetail(first[i], start_time)]
         IN  [basic_stats |-> [total_packets |-> total_packets,
                               duration |-> duration,
                               unique_ips |-> Cardinality(all_ips),
                               total_bytes |-> acc.total_bytes],
              protocol_stats |-> acc.protocol_counter,
              top_talkers |-> top_talkers,
              packet_details |-> packet_details]

analyze_packets(pkts) ==
    LET total_packets == Len(pkts) IN
    IF total_packets = 0
    THEN [basic_stats |-> [total_packets |-> 0, duration |-> 0,
                           unique_ips |-> 0, total_bytes |-> 0],
          protocol_stats |-> EmptyDict,
          top_talkers |-> <<>>,
          packet_details |-> <<>>]
    ELSE LET start_time == pkts[1].time
             end_time == pkts[Len(pkts)].time
             duration == RoundDiv(end_time - start_time, 10000)
             acc == AggFrom(pkts, 1, AggStart)
             all_ips == DOMAIN acc.source_counts.val \cup DOMAIN acc.dest_counts.val
             top_talkers == most_common(acc.source_counts, TopTalkersLen)
             first == SubSeq(pkts, 1, IF Len(pkts) < PreviewLen THEN Len(pkts)
                                      ELSE PreviewLen)
             packet_details == [i \in 1..Len(first) |-> PacketDetail(first[i], start_time)]
         IN  [basic_stats |-> [total_packets |-> total_packets,
                               duration |-> duration,
                               unique_ips |-> Cardinality(all_ips),
                               total_bytes |-> acc.total_bytes],
              protocol_stats |-> acc.protocol_counter,
              top_talkers |-> top_talkers,
              packet_details |-> packet_details]

(***************************************************************************)
(* Captures given to the aggregator                                        *)
(***************************************************************************)
\* Longest capture and largest number of sending addresses.
MaxPkts == 12
MaxSrc == 7

\* Addresses, in an order that is not their sorted order.
Addr(n) ==
    CASE n % 8 = 0 -> "10.0.0.9"
      [] n % 8 = 1 -> "10.0.0.3"
      [] n % 8 = 2 -> "192.168.1.5"
      [] n % 8 = 3 -> "10.0.0.1"
      [] n % 8 = 4 -> "172.16.0.4"
      [] n % 8 = 5 -> "10.0.0.12"
      [] n % 8 = 6 -> "10.0.0.2"
      [] OTHER -> "8.8.8.8"

\* The layers and ports of the packets drawn.  A VXLAN frame has the layers of
\* the frame it carries besides its own IP and UDP; an ICMP error quoting a DNS
\* query has a DNS layer; TCP or UDP over IPv6 has no IP layer.
Kinds ==
    << [layers |-> {IP, TCP}, tp |-> <<51000, 80>>, up |-> <<0, 0>>],
       [layers |-> {IP, TCP}, tp |-> <<443, 80>>, up |-> <<0, 0>>],
       [layers |-> {IP, UDP, DNS}, tp |-> <<0, 0>>, up |-> <<51001, 53>>],
       [layers |-> {IP, ICMP}, tp |-> <<0, 0>>, up |-> <<0, 0>>],
       [layers |-> {ARP}, tp |-> <<0, 0>>, up |-> <<0, 0>>],
       [layers |-> {IP, TCP}, tp |-> <<22, 443>>, up |-> <<0, 0>>],
       [layers |-> {IP, TCP, DNS}, tp |-> <<53, 51002>>, up |-> <<0, 0>>],
       [layers |-> {IP, UDP}, tp |-> <<0, 0>>, up |-> <<80, 443>>],
       [layers |-> {IP}, tp |-> <<0, 0>>, up |-> <<0, 0>>],
       [layers |-> {IP, TCP}, tp |-> <<51003, 22>>, up |-> <<0, 0>>],
       [layers |-> {IP, DNS}, tp |-> <<0, 0>>, up |-> <<0, 0>>],
       [layers |-> {IP, UDP}, tp |-> <<53, 51004>>, up |-> <<0, 0>>],
       [layers |-> {TCP}, tp |-> <<51005, 443>>, up |-> <<0, 0>>],
       [layers |-> {IP, TCP}, tp |-> <<51006, 8080>>, up |-> <<0, 0>>],
       [layers |-> {}, tp |-> <<0, 0>>, up |-> <<0, 0>>],
       [layers |-> {IP, UDP, TCP}, tp |-> <<51007, 80>>, up |-> <<51008, 4789>>],
       [layers |-> {IP, ICMP, DNS}, tp |-> <<0, 0>>, up |-> <<0, 0>>],
       [layers |-> {IP, UDP, ARP}, tp |-> <<0, 0>>, up |-> <<51009, 4789>>],
       [layers |-> {IP, UDP, TCP}, tp |-> <<51010, 51011>>, up |-> <<53, 4789>>],
       [layers |-> {IP, UDP, ICMP}, tp |-> <<0, 0>>, up |-> <<4789, 4789>>],
       [layers |-> {UDP, DNS}, tp |-> <<0, 0>>, up |-> <<53, 53>>] >>

SrcPatterns == {"round", "skip", "square", "late"}
TimePatterns == {"rising", "zigzag", "falling"}

\* Which of nsrc addresses sends packet i.  "round" and "skip" spread the
\* packets evenly; "square" and "late" give later addresses more packets.
SrcIndex(pattern, nsrc, i) ==
    CASE pattern = "round" -> (i - 1) % nsrc
      [] pattern = "skip" -> (2 * (i - 1)) % nsrc
      [] pattern = "square" -> (i * i) % nsrc
      [] OTHER -> IF i <= nsrc THEN i - 1
                  ELSE (nsrc - 1 - ((i - nsrc - 1) % 2)) % nsrc

\* Capture times in microseconds, on a grid of 400 us: a difference of two grid
\* times is never an exact half of a millisecond or of a hundredth of a second.
TimeGrid == 400
TimeBase == 1000000000
TimeOf(pattern, i) ==
    TimeBase + TimeGrid *
        (CASE pattern = "rising" -> (7 * i) + ((i * i) % 5)
           [] pattern = "zigzag" -> 40 + ((i * 17) % 23) * 9
           [] OTHER -> 2000 - 31 * i)

\* Packet i of the capture drawn for (kind0, nsrc, srcs, times).
AggPkt(i, kind0, nsrc, srcs, times) ==
    LET kind == Kinds[((kind0 + i - 2) % Len(Kinds)) + 1]
        s == SrcIndex(srcs, nsrc, i)
        hasIP == IP \in kind.layers
    IN  [time |-> TimeOf(times, i),
         len |-> 60 + 13 * ((3 * i) % 7),
         layers |-> kind.layers,
         src |-> IF hasIP THEN Addr(s) ELSE "N/A",
         dst |-> IF hasIP THEN Addr(s + 1 + (i % 3)) ELSE "N/A",
         tcp_sport |-> kind.tp[1], tcp_dport |-> kind.tp[2], flags |-> ACK_BIT,
         udp_sport |-> kind.up[1], udp_dport |-> kind.up[2]]

AggCapture(n, kind0, nsrc, srcs, times) ==
    [i \in 1..n |-> AggPkt(i, kind0, nsrc, srcs, times)]

AggCaptures ==
    {AggCapture(n, kind0, nsrc, srcs, times) :
        n \in 0..MaxPkts, kind0 \in 1..Len(Kinds), nsrc \in 1..MaxSrc,
        srcs \in SrcPatterns, times \in TimePatterns}

(***************************************************************************)
(* Specification: the aggregator applied to a capture                      *)
(***************************************************************************)
InitAnalyze ==
    /\ packets \in AggCaptures
    /\ pc = "loaded"
    /\ analysis = NotRun
    /\ detections = NotRun
    /\ NoRequest

AnalyzePackets ==
    /\ pc = "loaded"
    /\ analysis' = analyze_packets(packets)
    /\ pc' = "analyzed"
    /\ UNCHANGED <<packets, detections, reqvars, libvars>>

NextAnalyze == AnalyzePackets

SpecAnalyze == InitAnalyze /\ [][NextAnalyze]_vars

(***************************************************************************)
(* The router: values                                                      *)
(*                                                                         *)
(* A file name is a sequence of characters, so that lower() and endswith() *)
(* are computed as Python computes them.  An upload is its name and its    *)
(* content; the content is either a capture file (its packets and its size *)
(* in bytes) or bytes that are no capture file.                            *)
(***************************************************************************)
UpperCase == <<"A", "B", "C", "D", "E", "F", "G", "H", "I", "J", "K", "L", "M",
               "N", "O", "P", "Q", "R", "S", "T", "U", "V", "W", "X", "Y", "Z">>
LowerCase == <<"a", "b", "c", "d", "e", "f", "g", "h", "i", "j", "k", "l", "m",
               "n", "o", "p", "q", "r", "s", "t", "u", "v", "w", "x", "y", "z">>

\* str.lower()
lower(s) ==
    [i \in 1..Len(s) |->
        IF \E k \in 1..Len(UpperCase) : UpperCase[k] = s[i]
        THEN LowerCase[CHOOSE k \in 1..Len(UpperCase) : UpperCase[k] = s[i]]
        ELSE s[i]]

\* str.endswith(suffix)
endswith(s, suffix) ==
    /\ Len(s) >= Len(suffix)
    /\ SubSeq(s, Len(s) - Len(suffix) + 1, Len(s)) = suffix

DotPcap == <<".", "p", "c", "a", "p">>
DotPcapng == <<".", "p", "c", "a", "p", "n", "g">>

\* Whether sub occurs in s.
contains(s, sub) ==
    \E i \in 0..(Len(s) - Len(sub)) : SubSeq(s, i + 1, i + Len(sub)) = sub

\* InvalidFilename with the extension looked for anywhere in the name.
InvalidFilename_Anywhere(filename) ==
    \/ filename = None
    \/ filename = <<>>
    \/ ~contains(lower(filename), DotPcap)

\* The condition of the 400 response: "not file.filename or not
\* file.filename.lower().endswith((".pcap", ".pcapng"))".
InvalidFilename(filename) ==
    \/ filename = None
    \/ filename = <<>>
    \/ ~(endswith(lower(filename), DotPcap) \/ endswith(lower(filename), DotPcapng))

\* An exception, and the test for one among the results of a call.
Raised(exc, msg) == [exc |-> exc, msg |-> msg]
Returned(value) == [value |-> value]
Raises(outcome) == "exc" \in DOMAIN outcome

\* The exception the environment raises in the call named by fault.
Faults == {"none", "read", "rdpcap", "analyze_packets", "detect_syn_flood"}
Fault == Raised("OSError", "fault in " \o fault)

\* The size of a capture file: the file header and, for each packet, a record
\* header and the packet's bytes.
PcapFileHeader == 24
PcapRecordHeader == 16
RECURSIVE PacketBytes(_, _, _)
PacketBytes(pkts, lo, hi) ==
    IF lo > hi THEN 0
    ELSE IF lo = hi THEN pkts[lo].len
    ELSE PacketBytes(pkts, lo, (lo + hi) \div 2)
             + PacketBytes(pkts, ((lo + hi) \div 2) + 1, hi)
PcapSize(pkts) ==
    PcapFileHeader + Len(pkts) * PcapRecordHeader + PacketBytes(pkts, 1, Len(pkts))

CaptureFile(pkts) ==
    [kind |-> "pcap", packets |-> pkts, size |-> PcapSize(pkts), missing |-> 0]
OtherBytes(size) == [kind |-> "other", packets |-> <<>>, size |-> size, missing |-> 0]

\* A capture file cut short: the record header of the last packet is whole and
\* declares the packet's length, and the last `missing` bytes of the packet
\* are not in the file.
TruncatedFile(pkts, missing) ==
    [kind |-> "truncated", packets |-> pkts, size |-> PcapSize(pkts) - missing,
     missing |-> missing]

\* rdpcap on the temporary file holding the first `written` bytes of content.
\* The parser raises on a file without bytes and on one that is no capture;
\* the file is complete when the parser is called.  Of a record it reads the
\* header and then the declared number of bytes, without comparing that
\* number with the bytes read: the last packet of a file cut short is
\* returned with the bytes there are.
rdpcap(content, written) ==
    IF written = 0 THEN Raised("Scapy_Exception", "No data could be read!")
    ELSE IF content.kind = "other" \/ written < content.size
    THEN Raised("Scapy_Exception", "Not a supported capture file")
    ELSE IF content.kind = "truncated"
    THEN Returned([content.packets EXCEPT
                       ![Len(content.packets)].len = @ - content.missing])
    ELSE Returned(content.packets)

\* The same packets with full-size payloads.
Padding == 1400
Padded(pkts) == [i \in 1..Len(pkts) |-> [pkts[i] EXCEPT !.len = @ + Padding]]

Filenames ==
    { None,
      <<>>,
      <<"a", ".", "p", "c", "a", "p">>,
      <<"A", ".", "P", "C", "A", "P">>,
      <<"b", ".", "p", "c", "a", "p", "n", "g">>,
      <<"x", ".", "P", "c", "a", "p", "N", "g">>,
      <<".", "p", "c", "a", "p">>,
      <<"x", ".", "p", "c", "a", "p", ".", "t", "x", "t">>,
      <<"p", "c", "a", "p">>,
      <<"c", "a", "p", ".", "p", "c", "a">>,
      <<"x", ".", "p", "c", "a", "p", "n">>,
      <<"x", ".", "p", "c", "a", "p", "n", "g", " ">>,
      <<"a", ".", "P", "N", "G">> }

LargeUpload == 20000
MissingBytes == 40
Contents ==
    { CaptureFile(<<>>),
      CaptureFile(AggCapture(1, 1, 1, "round", "rising")),
      CaptureFile(AggCapture(3, 5, 2, "skip", "zigzag")),
      CaptureFile(AggCapture(MaxPkts, 1, 4, "square", "falling")),
      CaptureFile(Padded(AggCapture(MaxPkts, 9, 3, "late", "zigzag"))),
      CaptureFile(SynCapture(MinSynCount, 1, 0, "syn_first")),
      CaptureFile(SynCapture(MinSynCount + 2, 5, MinSynCount, "mixed")),
      CaptureFile(Padded(SynCapture(MinSynCount + 2, 2, 0, "ack_first"))),
      CaptureFile(SynCapture(HighSynCount + 1, 2, 0, "ack_first")),
      TruncatedFile(AggCapture(3, 2, 2, "round", "rising"), MissingBytes),
      OtherBytes(0),
      OtherBytes(5),
      OtherBytes(LargeUpload) }

Uploads == [filename : Filenames, content : Contents]

\* Readings of the clock.
Clock == {1700000000, 1700000060}

\* health(): the body returned; SCAPY_AVAILABLE is not read.
health(now) ==
    [ok |-> TRUE, module |-> "pcap",
     analyze_endpoint |-> "/pcap/analyze", timestamp |-> <<now, "Z">>]

\* The responses of analyze_pcap: an HTTPException, or the body returned.
HTTPException(status_code, detail) == [status_code |-> status_code, detail |-> detail]
Success(body) == [status_code |-> 200, body |-> body]

ScapyMissingDetail ==
    "PCAP analysis unavailable: Scapy is not installed. Install scapy in the virtual environment to enable this module."
InvalidFileDetail == "Invalid file type. Please upload a .pcap or .pcapng file."

\* The exception answered as a result that holds what was computed.
InternalError_Partial(outcome) ==
    Success([basic_stats |-> [total_packets |-> 0, duration |-> 0,
                              unique_ips |-> 0, total_bytes |-> 0],
             error |-> outcome.msg])

\* "except Exception as exc": the 500 response for the exception raised.
InternalError(outcome) ==
    HTTPException(500, "Error analyzing file: " \o outcome.msg)

\* The name NamedTemporaryFile gives the file.
TmpName == <<"/", "t", "m", "p", "/", "t", "m", "p", "0", ".", "p", "c", "a", "p">>

chunk_size == 8192
MaxHealthCalls == 2

(***************************************************************************)
(* Specification: requests to the router                                   *)
(*                                                                         *)
(* One upload is analysed; the health route is called at any time.  The    *)
(* handler analyze_pcap is cut at its awaits: its start up to the creation *)
(* of the temporary file, each read of a chunk, and the rest from the      *)
(* empty chunk to the response.                                            *)
(***************************************************************************)
Init ==
    /\ SCAPY_AVAILABLE \in BOOLEAN
    /\ file \in Uploads
    /\ fault \in Faults
    /\ pc = "request"
    /\ packets = NotRun
    /\ analysis = NotRun
    /\ detections = NotRun
    /\ file_pos = 0
    /\ tmp_file = [exists |-> FALSE, size |-> 0]
    /\ tmp_path = None
    /\ response = NotRun
    /\ health_response = NotRun
    /\ calls = [read |-> 0, tmp |-> 0, rdpcap |-> 0, health |-> 0]
    /\ NoLibrary

\* GET /pcap/health
Health ==
    /\ calls.health < MaxHealthCalls
    /\ \E now \in Clock : health_response' = health(now)
    /\ calls' = [calls EXCEPT !.health = @ + 1]
    /\ UNCHANGED <<packets, pc, analysis, detections, SCAPY_AVAILABLE, file,
                   fault, file_pos, tmp_file, tmp_path, response, libvars>>

\* The checks with the file name looked at before the import flag.
Precheck_FilenameFirst(scapy_available, filename) ==
    IF InvalidFilename(filename) THEN HTTPException(400, InvalidFileDetail)
    ELSE IF ~scapy_available THEN HTTPException(503, ScapyMissingDetail)
    ELSE Returned("ok")

\* The two checks analyze_pcap starts with: the exception raised, if any.
Precheck(scapy_available, filename) ==
    IF ~scapy_available THEN HTTPException(503, ScapyMissingDetail)
    ELSE IF InvalidFilename(filename) THEN HTTPException(400, InvalidFileDetail)
    ELSE Returned("ok")

\* analyze_pcap up to the first read: the two checks and the temporary file.
BeginAnalyze ==
    /\ pc = "request"
    /\ IF "status_code" \in DOMAIN Precheck(SCAPY_AVAILABLE, file.filename)
       THEN /\ response' = Precheck(SCAPY_AVAILABLE, file.filename)
            /\ pc' = "done"
            /\ UNCHANGED <<tmp_file, calls>>
       ELSE /\ tmp_file' = [exists |-> TRUE, size |-> 0]
            /\ calls' = [calls EXCEPT !.tmp = @ + 1]
            /\ pc' = "reading"
            /\ UNCHANGED response
    /\ UNCHANGED <<packets, analysis, detections, SCAPY_AVAILABLE, file, fault,
                   file_pos, tmp_path, health_response, libvars>>

\* One turn of the loop with a chunk that is not empty, written to the file.
ReadChunk ==
    /\ pc = "reading"
    /\ file_pos < file.content.size
    /\ LET rest == file.content.size - file_pos
           chunk == IF rest < chunk_size THEN rest ELSE chunk_size
       IN  /\ file_pos' = file_pos + chunk
           /\ tmp_file' = [tmp_file EXCEPT !.size = @ + chunk]
    /\ calls' = [calls EXCEPT !.read = @ + 1]
    /\ UNCHANGED <<packets, pc, analysis, detections, SCAPY_AVAILABLE, file,
                   fault, tmp_path, response, health_response, libvars>>

\* "finally": the temporary file is removed if tmp_path names it.
Cleanup(path, tmp) ==
    IF path # None /\ path # <<>> /\ tmp.exists
    THEN [tmp EXCEPT !.exists = FALSE]
    ELSE tmp

\* A read that raises: tmp_path is still None when "finally" runs.
ReadFails ==
    /\ pc = "reading"
    /\ fault = "read"
    /\ calls' = [calls EXCEPT !.read = @ + 1]
    /\ response' = InternalError(Fault)
    /\ tmp_file' = Cleanup(tmp_path, tmp_file)
    /\ pc' = "done"
    /\ UNCHANGED <<packets, analysis, detections, SCAPY_AVAILABLE, file, fault,
                   file_pos, tmp_path, health_response, libvars>>

\* The "file" entry of the response, with the upload's size in bytes.
FileMetadata_UploadSize(upload, aggregated) ==
    [name |-> upload.filename, size_bytes |-> upload.content.size]

\* The "file" entry of the response.
FileMetadata(upload, aggregated) ==
    [name |-> upload.filename, size_bytes |-> aggregated.basic_stats.total_bytes]

\* The rest of analyze_pcap from the empty chunk: tmp_path is assigned, the
\* file is parsed, aggregated and scanned, and "finally" removes it.  The
\* first exception ends the request with the 500 response.
FinishAnalyze ==
    /\ pc = "reading"
    /\ file_pos = file.content.size
    /\ LET loaded == IF fault = "rdpcap" THEN Fault
                     ELSE rdpcap(file.content, tmp_file.size)
           aggregated == IF fault = "analyze_packets" THEN Fault
                         ELSE analyze_packets(loaded.value)
           with_file == [file |-> FileMetadata(file, aggregated)] @@ aggregated
           detected == IF fault = "detect_syn_flood" THEN Fault
                       ELSE Returned(detect_syn_flood(loaded.value))
           body == [detections |-> [syn_flood |-> detected.value]] @@ with_file
       IN  IF Raises(loaded)
           THEN /\ response' = InternalError(loaded)
                /\ UNCHANGED <<packets, analysis, detections>>
           ELSE IF Raises(aggregated)
           THEN /\ response' = InternalError(aggregated)
                /\ packets' = loaded.value
                /\ UNCHANGED <<analysis, detections>>
           ELSE IF Raises(detected)
           THEN /\ response' = InternalError(detected)
                /\ packets' = loaded.value
                /\ analysis' = with_file
                /\ UNCHANGED detections
           ELSE /\ response' = Success(body)
                /\ packets' = loaded.value
                /\ analysis' = body
                /\ detections' = body.detections
    /\ calls' = [calls EXCEPT !.read = @ + 1, !.rdpcap = @ + 1]
    /\ tmp_path' = TmpName
    /\ tmp_file' = Cleanup(TmpName, tmp_file)
    /\ pc' = "done"
    /\ UNCHANGED <<SCAPY_AVAILABLE, file, fault, file_pos, health_response,
                   libvars>>

\* data.get(key, default) of a result with the keys of a record.
get(data, key, default) == IF key \in DOMAIN data THEN data[key] ELSE default

\* The document Database.save_analysis inserts.
save_analysis(filename, analysis_data, now) ==
    [filename |-> filename,
     timestamp |-> now,
     basic_stats |-> get(analysis_data, "basic_stats", EmptyDict),
     protocol_stats |-> get(analysis_data, "protocol_stats", EmptyDict),
     top_talkers |-> get(analysis_data, "top_talkers", <<>>),
     packet_details |-> get(analysis_data, "packet_details", <<>>)]

\* The document Database.save_threats inserts.
save_threats(filename, threat_data, now) ==
    [filename |-> filename,
     timestamp |-> now,
     threat_summary |-> get(threat_data, "threat_summary", EmptyDict),
     syn_flood_detection |-> get(threat_data, "syn_flood_detection", EmptyDict),
     port_scan_detection |-> get(threat_data, "port_scan_detection", EmptyDict),
     volume_anomaly_detection |->
         get(threat_data, "volume_anomaly_detection", EmptyDict),
     abuseipdb_results |-> get(threat_data, "abuseipdb_results", EmptyDict)]

\* The body of a 200 response is handed, as it is, to save_analysis and to
\* save_threats.  Without a connection both collections are None and nothing
\* is inserted.
SaveResult ==
    /\ pc = "done"
    /\ documents.saves = 0
    /\ response.status_code = 200
    /\ \E connected \in BOOLEAN, now \in Clock :
           documents' =
               IF connected
               THEN [saves |-> 1,
                     analyses |-> <<save_analysis(file.filename, response.body, now)>>,
                     threats |-> <<save_threats(file.filename, response.body, now)>>]
               ELSE [documents EXCEPT !.saves = 1]
    /\ UNCHANGED <<packets, pc, analysis, detections, reqvars, runs, mongo, users>>

Next ==
    \/ Health
    \/ BeginAnalyze
    \/ ReadChunk
    \/ ReadFails
    \/ FinishAnalyze
    \/ SaveResult

Spec == Init /\ [][Next]_vars


(***************************************************************************)
(* What the capture contains, stated on the packets themselves             *)
(***************************************************************************)
Indices == 1..Len(packets)

\* Every address an IP layer of the capture names.
CaptureIPs ==
    {packets[i].src : i \in {n \in Indices : IP \in packets[n].layers}}
    \cup {packets[i].dst : i \in {n \in Indices : IP \in packets[n].layers}}

BitSet(flags, bit) == (flags \div bit) % 2 = 1

IsBareSyn(p) ==
    /\ IP \in p.layers /\ TCP \in p.layers
    /\ BitSet(p.flags, 2) /\ ~BitSet(p.flags, 16)

IsExactSynAck(p) ==
    /\ IP \in p.layers /\ TCP \in p.layers
    /\ p.flags = 18

\* Positions of the bare SYNs sent by ip, and of the SYN-ACKs sent to ip.
BareSynsOf(ip) == {i \in Indices : IsBareSyn(packets[i]) /\ packets[i].src = ip}
SynAcksTo(ip) == {i \in Indices : IsExactSynAck(packets[i]) /\ packets[i].dst = ip}

Alerts == detections.syn_flood
AlertsOf(ip) == {j \in 1..Len(Alerts) : Alerts[j].source_ip = ip}

(***************************************************************************)
(* Claims on detect_syn_flood                                              *)
(***************************************************************************)
\* C1: exactly one alert for each source IP with at least 10 bare SYNs (on
\* packets with IP and TCP layers) and syn_ack_count / syn_count < 0.2, and no
\* alert for any other IP; 9 or fewer bare SYNs never give an alert.
C1_AlertIffThreshold ==
    pc = "detected" =>
        /\ \A j \in 1..Len(Alerts) : Alerts[j].source_ip \in CaptureIPs
        /\ \A ip \in CaptureIPs :
              LET syns == Cardinality(BareSynsOf(ip))
                  acks == Cardinality(SynAcksTo(ip))
              IN  Cardinality(AlertsOf(ip)) =
                      IF syns >= 10 /\ 5 * acks < syns THEN 1 ELSE 0

\* One source is alerted, another has 10 or more bare SYNs and a ratio of 0.2 or
\* more and is not, and a third address sent fewer than 10 and is not.
C1_Witness ==
    /\ pc = "detected"
    /\ \E ip \in CaptureIPs : AlertsOf(ip) # {}
    /\ \E ip \in CaptureIPs :
          /\ Cardinality(BareSynsOf(ip)) >= 10
          /\ 5 * Cardinality(SynAcksTo(ip)) >= Cardinality(BareSynsOf(ip))
          /\ AlertsOf(ip) = {}
    /\ \E ip \in CaptureIPs :
          /\ Cardinality(BareSynsOf(ip)) < 10
          /\ SynAcksTo(ip) = {}
          /\ AlertsOf(ip) = {}

\* C2: the packet loop counts a TCP/IP packet as a bare SYN of its source iff
\* SYN is set and ACK is clear, as a SYN-ACK of its destination iff its flags
\* are exactly 0x12, and otherwise changes no counter.
C2_FlagClassification ==
    pc = "detected" =>
        LET acc == ScanPackets(packets) IN
        /\ \A ip \in CaptureIPs \cup DOMAIN acc.syn_packets.val
                     \cup DOMAIN acc.syn_ack_counts.val :
              /\ Len(DictGet(acc.syn_packets, ip, <<>>)) = Cardinality(BareSynsOf(ip))
              /\ DictGet(acc.syn_ack_counts, ip, 0) = Cardinality(SynAcksTo(ip))
        /\ \A i \in Indices :
              (~IsBareSyn(packets[i]) /\ ~IsExactSynAck(packets[i]))
                  => ScanPacket(acc, packets[i]) = acc

\* The capture holds a SYN with other bits set that is counted, and a packet
\* with SYN, ACK and a third bit, addressed to an alerted source, that is not.
C2_Witness ==
    /\ pc = "detected"
    /\ \E i \in Indices : IsBareSyn(packets[i]) /\ packets[i].flags # 2
    /\ \E i \in Indices :
          /\ IP \in packets[i].layers /\ TCP \in packets[i].layers
          /\ BitSet(packets[i].flags, 2) /\ BitSet(packets[i].flags, 16)
          /\ packets[i].flags # 18
          /\ AlertsOf(packets[i].dst) # {}
          /\ Alerts[CHOOSE j \in AlertsOf(packets[i].dst) : TRUE].syn_ack_count
                 = Cardinality(SynAcksTo(packets[i].dst))
    /\ \E ip \in CaptureIPs : SynAcksTo(ip) # {}

\* C3: the syn_ack_count of a source S, reported in its alert and used in its
\* ratio test, is the number of exact SYN-ACKs in the whole capture addressed
\* to S, whoever sent them and wherever they stand.
C3_CrossRoleCount ==
    pc = "detected" =>
        /\ \A j \in 1..Len(Alerts) :
              Alerts[j].syn_ack_count = Cardinality(SynAcksTo(Alerts[j].source_ip))
        /\ \A ip \in CaptureIPs :
              Cardinality(BareSynsOf(ip)) >= 10 =>
                  (AlertsOf(ip) # {}
                      <=> 5 * Cardinality(SynAcksTo(ip)) < Cardinality(BareSynsOf(ip)))

\* An alerted source received a SYN-ACK from a host it sent no SYN to, before
\* its own first SYN, and itself sent a SYN-ACK that its count leaves out.
C3_Witness ==
    /\ pc = "detected"
    /\ \E j \in 1..Len(Alerts) :
          LET S == Alerts[j].source_ip IN
          /\ Alerts[j].syn_ack_count > 0
          /\ \E i \in SynAcksTo(S) :
                /\ \A n \in BareSynsOf(S) : packets[n].dst # packets[i].src
                /\ \A n \in BareSynsOf(S) : i < n
          /\ \E i \in Indices : IsExactSynAck(packets[i]) /\ packets[i].src = S

\* C4: an alert's severity is "high" iff its syn_count exceeds 50 and "medium"
\* otherwise.
C4_Severity ==
    pc = "detected" =>
        \A j \in 1..Len(Alerts) :
            /\ Alerts[j].severity \in {"high", "medium"}
            /\ Alerts[j].severity = "high" <=> Alerts[j].syn_count > 50

\* A capture with an alert of more than 50 SYNs and one of fewer.
C4_Witness ==
    /\ pc = "detected"
    /\ \E j \in 1..Len(Alerts) : Alerts[j].syn_count = 51 /\ Alerts[j].severity = "high"
    /\ \E j \in 1..Len(Alerts) : Alerts[j].syn_count = 11 /\ Alerts[j].severity = "medium"

\* C5: unique_targets is the number of distinct (dst_ip, dst_port) pairs among
\* the source's bare SYNs, hence between 1 and syn_count.
C5_UniqueTargets ==
    pc = "detected" =>
        \A j \in 1..Len(Alerts) :
            LET pairs == {<<packets[i].dst, packets[i].tcp_dport>> :
                              i \in BareSynsOf(Alerts[j].source_ip)}
            IN  /\ Alerts[j].unique_targets = Cardinality(pairs)
                /\ 1 <= Alerts[j].unique_targets
                /\ Alerts[j].unique_targets <= Alerts[j].syn_count

\* An alert whose SYNs repeat some targets: more than one target per address,
\* fewer targets than SYNs.
C5_Witness ==
    /\ pc = "detected"
    /\ \E j \in 1..Len(Alerts) :
          /\ Alerts[j].unique_targets < Alerts[j].syn_count
          /\ Alerts[j].unique_targets >
                 Cardinality({packets[i].dst : i \in BareSynsOf(Alerts[j].source_ip)})

(***************************************************************************)
(* Claims on analyze_packets and get_protocol_name                         *)
(***************************************************************************)
Stats == analysis.protocol_stats
Talkers == analysis.top_talkers
Details == analysis.packet_details

\* Sum of the counts of a dict.
RECURSIVE SumFrom(_, _)
SumFrom(d, i) == IF i > Len(d.keys) THEN 0 ELSE d.val[d.keys[i]] + SumFrom(d, i + 1)

ClassLayers == <<"TCP", "UDP", "ICMP", "ARP", "DNS">>

\* The earliest layer of ClassLayers the packet carries, "Other" if none.
FirstClassLayer(p) ==
    LET hits == {k \in 1..Len(ClassLayers) : ClassLayers[k] \in p.layers}
    IN  IF hits = {} THEN "Other"
        ELSE ClassLayers[CHOOSE k \in hits : \A m \in hits : k <= m]

\* The display label as the classifier's decision table states it.
DisplayLabel(p) ==
    CASE "TCP" \in p.layers /\ (p.tcp_sport = 80 \/ p.tcp_dport = 80) -> "HTTP"
      [] "TCP" \in p.layers /\ p.tcp_sport # 80 /\ p.tcp_dport # 80
             /\ (p.tcp_sport = 443 \/ p.tcp_dport = 443) -> "HTTPS"
      [] "TCP" \in p.layers /\ {p.tcp_sport, p.tcp_dport} \cap {80, 443} = {}
             /\ (p.tcp_sport = 22 \/ p.tcp_dport = 22) -> "SSH"
      [] "TCP" \in p.layers /\ {p.tcp_sport, p.tcp_dport} \cap {80, 443, 22} = {} -> "TCP"
      [] "TCP" \notin p.layers /\ "UDP" \in p.layers
             /\ (p.udp_sport = 53 \/ p.udp_dport = 53) -> "DNS"
      [] "TCP" \notin p.layers /\ "UDP" \in p.layers
             /\ p.udp_sport # 53 /\ p.udp_dport # 53 -> "UDP"
      [] {"TCP", "UDP"} \cap p.layers = {} /\ "ICMP" \in p.layers -> "ICMP"
      [] {"TCP", "UDP", "ICMP"} \cap p.layers = {} /\ "ARP" \in p.layers -> "ARP"
      [] OTHER -> "Other"

\* The packets with an IP layer sent by ip, and the first of them.
SentBy(ip) == {i \in Indices : IP \in packets[i].layers /\ packets[i].src = ip}
Senders == {packets[i].src : i \in {n \in Indices : IP \in packets[n].layers}}
FirstSent(ip) == CHOOSE i \in SentBy(ip) : \A n \in SentBy(ip) : i <= n

\* a ranks before b: more packets, or as many and seen first.
RanksBefore(a, b) ==
    \/ Cardinality(SentBy(a)) > Cardinality(SentBy(b))
    \/ /\ Cardinality(SentBy(a)) = Cardinality(SentBy(b))
       /\ FirstSent(a) < FirstSent(b)

Smaller(a, b) == IF a < b THEN a ELSE b

\* C6: total_packets is the length of the capture and the counts of
\* protocol_stats add up to it.
C6_TotalAndTallySum ==
    pc = "analyzed" =>
        /\ analysis.basic_stats.total_packets = Len(packets)
        /\ SumFrom(Stats, 1) = Len(packets)

\* A capture of several packets, some without an IP layer and some with two
\* of the classified layers, tallied under at least three labels.
C6_Witness ==
    /\ pc = "analyzed"
    /\ Len(packets) >= 3
    /\ \E i \in Indices : IP \notin packets[i].layers
    /\ \E i \in Indices :
          Cardinality(packets[i].layers \cap {TCP, UDP, ICMP, ARP, DNS}) >= 2
    /\ Len(Stats.keys) >= 3

\* C7: each packet is tallied under the first of TCP, UDP, ICMP, ARP, DNS it
\* carries, else under Other, and under no other label.
C7_TallyPrecedence ==
    pc = "analyzed" =>
        /\ DOMAIN Stats.val \subseteq {"TCP", "UDP", "ICMP", "ARP", "DNS", "Other"}
        /\ \A label \in {"TCP", "UDP", "ICMP", "ARP", "DNS", "Other"} :
              DictGet(Stats, label, 0) =
                  Cardinality({i \in Indices : FirstClassLayer(packets[i]) = label})

\* A packet with TCP and DNS layers and a DNS-over-UDP packet, in a capture
\* where nothing is tallied as DNS.
C7_Witness ==
    /\ pc = "analyzed"
    /\ \E i \in Indices : {TCP, DNS} \subseteq packets[i].layers
    /\ \E i \in Indices : {UDP, DNS} \subseteq packets[i].layers
                          /\ TCP \notin packets[i].layers
    /\ "DNS" \notin DOMAIN Stats.val
    /\ DictGet(Stats, "TCP", 0) >= 1 /\ DictGet(Stats, "UDP", 0) >= 1

\* C8: get_protocol_name gives HTTP, HTTPS, SSH or TCP for a TCP packet (port
\* 80 before 443 before 22, either port), DNS or UDP for a UDP packet without
\* TCP (port 53), then ICMP, ARP, Other; the preview shows that label.
C8_DisplayLabel ==
    pc = "analyzed" =>
        /\ \A i \in Indices : get_protocol_name(packets[i]) = DisplayLabel(packets[i])
        /\ \A i \in 1..Len(Details) : Details[i].protocol = DisplayLabel(packets[i])

\* A UDP port-53 packet previewed as DNS in a capture whose tally has UDP and
\* no DNS, next to a TCP packet with ports 443 and 80 previewed as HTTP.
C8_Witness ==
    /\ pc = "analyzed"
    /\ \E i \in 1..Len(Details) :
          /\ UDP \in packets[i].layers /\ TCP \notin packets[i].layers
          /\ Details[i].protocol = "DNS"
    /\ "DNS" \notin DOMAIN Stats.val /\ DictGet(Stats, "UDP", 0) >= 1
    /\ \E i \in 1..Len(Details) :
          /\ {packets[i].tcp_sport, packets[i].tcp_dport} = {80, 443}
          /\ Details[i].protocol = "HTTP"

\* C9: top_talkers holds the first 5 (all, if fewer) of the sending addresses
\* ranked by descending packet count, equal counts by first packet, each with
\* its count.
C9_TopTalkers ==
    pc = "analyzed" =>
        /\ Len(Talkers) = Smaller(5, Cardinality(Senders))
        /\ Len(Talkers) <= 5
        /\ \A j \in 1..Len(Talkers) :
              /\ Talkers[j][1] \in Senders
              /\ Talkers[j][2] = Cardinality(SentBy(Talkers[j][1]))
        /\ \A j, k \in 1..Len(Talkers) :
              j < k => RanksBefore(Talkers[j][1], Talkers[k][1])
        /\ \A ip \in Senders \ {Talkers[j][1] : j \in 1..Len(Talkers)} :
              \A j \in 1..Len(Talkers) : RanksBefore(Talkers[j][1], ip)

\* More than 5 senders; an address seen later ranks before one seen earlier
\* because it sent more, two listed addresses tie, and an address left out
\* ties with the last one listed.
C9_Witness ==
    /\ pc = "analyzed"
    /\ Cardinality(Senders) > 5
    /\ Len(Talkers) = 5
    /\ \E j, k \in 1..5 :
          j < k /\ FirstSent(Talkers[j][1]) > FirstSent(Talkers[k][1])
    /\ \E j, k \in 1..5 : j < k /\ Talkers[j][2] = Talkers[k][2]
    /\ \E ip \in Senders \ {Talkers[j][1] : j \in 1..5} :
          Cardinality(SentBy(ip)) = Talkers[5][2]

\* C10 as stated: min(10, total) entries in capture order, relative_time equal
\* to the packet's time minus the first packet's time, the display label and
\* the length.
C10_PreviewExactTime ==
    pc = "analyzed" =>
        /\ Len(Details) = Smaller(10, Len(packets))
        /\ \A i \in 1..Len(Details) :
              /\ Details[i].relative_time * 1000 = packets[i].time - packets[1].time
              /\ Details[i].protocol = DisplayLabel(packets[i])
              /\ Details[i].size_bytes = packets[i].len

\* C10, amended: min(10, total) entries in capture order, relative_time the
\* packet's time minus the first packet's time rounded to 3 decimals (the
\* nearest millisecond), the display label and the length.
C10_PreviewRoundedTime ==
    pc = "analyzed" =>
        /\ Len(Details) = Smaller(10, Len(packets))
        /\ \A i \in 1..Len(Details) :
              LET diff == packets[i].time - packets[1].time
                  shown == Details[i].relative_time * 1000
              IN  /\ 2 * (shown - diff) <= 1000
                  /\ 2 * (diff - shown) <= 1000
                  /\ Details[i].protocol = DisplayLabel(packets[i])
                  /\ Details[i].size_bytes = packets[i].len

\* More than 10 packets whose times are not in capture order, 10 entries, and
\* a difference that is no whole number of milliseconds, rounded up.
C10_Witness ==
    /\ pc = "analyzed"
    /\ Len(packets) > 10
    /\ Len(Details) = 10
    /\ \E i, j \in 2..10 : i < j /\ packets[i].time > packets[j].time
    /\ \E i \in 1..10 :
          (packets[i].time - packets[1].time) % 1000 > 500

\* C12 as stated: the duration of a non-empty capture is the time of its last
\* packet minus the time of its first, and 0.0 for a single packet.
C12_DurationExact ==
    (pc = "analyzed" /\ Len(packets) >= 1) =>
        /\ analysis.basic_stats.duration * 10000
               = packets[Len(packets)].time - packets[1].time
        /\ Len(packets) = 1 => analysis.basic_stats.duration = 0

\* C12, amended: the duration of a non-empty capture is the time of its last
\* packet minus the time of its first in on-disk order (not the latest minus
\* the earliest), rounded to 2 decimals, and 0.0 for a single packet.
C12_DurationRounded ==
    (pc = "analyzed" /\ Len(packets) >= 1) =>
        LET diff == packets[Len(packets)].time - packets[1].time
            shown == analysis.basic_stats.duration * 10000
        IN  /\ 2 * (shown - diff) <= 10000
            /\ 2 * (diff - shown) <= 10000
            /\ Len(packets) = 1 => analysis.basic_stats.duration = 0

\* Times out of capture order: a packet in the middle is later than the last
\* and another earlier than the first, and the duration shown is not zero.
C12_Witness ==
    /\ pc = "analyzed"
    /\ Len(packets) >= 3
    /\ \E i \in Indices : packets[i].time > packets[Len(packets)].time
    /\ \E i \in Indices : packets[i].time < packets[1].time
    /\ analysis.basic_stats.duration # 0
    /\ (packets[Len(packets)].time - packets[1].time) % 10000 # 0

\* C13: unique_ips is the number of distinct addresses that are the source or
\* the destination of a packet with an IP layer.
C13_UniqueIps ==
    pc = "analyzed" =>
        analysis.basic_stats.unique_ips = Cardinality(CaptureIPs)

\* An address in both roles and one that is only a destination, in a capture
\* with a packet without IP layer; fewer addresses than twice the IP packets.
C13_Witness ==
    /\ pc = "analyzed"
    /\ \E i, j \in Indices :
          /\ IP \in packets[i].layers /\ IP \in packets[j].layers
          /\ packets[i].src = packets[j].dst
    /\ \E j \in Indices :
          /\ IP \in packets[j].layers
          /\ \A i \in Indices : IP \in packets[i].layers => packets[i].src # packets[j].dst
    /\ \E i \in Indices : IP \notin packets[i].layers
    /\ analysis.basic_stats.unique_ips >= 3
    /\ analysis.basic_stats.unique_ips
           < 2 * Cardinality({i \in Indices : IP \in packets[i].layers})

(***************************************************************************)
(* What the router answers                                                 *)
(***************************************************************************)
Answered == pc = "done"
Succeeded == pc = "done" /\ response.status_code = 200
ValidUpload == SCAPY_AVAILABLE /\ ~InvalidFilename(file.filename)

\* C11: a capture without packets gives the summary of zeros, the empty
\* tally, talkers and preview and no alert, and neither function raises: the
\* request succeeds.
C11_EmptyCapture ==
    (Answered /\ calls.rdpcap = 1 /\ fault = "none"
              /\ file.content = CaptureFile(<<>>)) =>
        /\ response.status_code = 200
        /\ response.body.basic_stats = [total_packets |-> 0, duration |-> 0,
                                        unique_ips |-> 0, total_bytes |-> 0]
        /\ response.body.protocol_stats = EmptyDict
        /\ response.body.top_talkers = <<>>
        /\ response.body.packet_details = <<>>
        /\ response.body.detections.syn_flood = <<>>

\* A capture file without packets was parsed and answered.
C11_Witness ==
    /\ Succeeded
    /\ packets = <<>>
    /\ file.content.kind = "pcap"
    /\ file.content.size = PcapFileHeader
    /\ tmp_file.size = PcapFileHeader

\* The bytes of packets lo..hi of the capture parsed.
RECURSIVE BytesOf(_, _)
BytesOf(lo, hi) ==
    IF lo > hi THEN 0
    ELSE IF lo = hi THEN packets[lo].len
    ELSE BytesOf(lo, (lo + hi) \div 2) + BytesOf(((lo + hi) \div 2) + 1, hi)

\* C14: in a successful response file.size_bytes is basic_stats.total_bytes
\* and both are the sum of the lengths of the packets, not the size of the
\* upload.
C14_SizeIsPacketBytes ==
    Succeeded =>
        /\ response.body.file.size_bytes = response.body.basic_stats.total_bytes
        /\ response.body.basic_stats.total_bytes = BytesOf(1, Len(packets))
        /\ response.body.file.size_bytes # file.content.size
        /\ file.content.size = tmp_file.size

\* A capture of several packets uploaded in more than one chunk and answered.
C14_Witness ==
    /\ Succeeded
    /\ Len(packets) >= 2
    /\ calls.read >= 3
    /\ response.body.file.size_bytes > chunk_size
    /\ response.body.file.name = file.filename

\* The names of Filenames that end in .pcap or .pcapng, whatever the case.
CaptureNames ==
    { <<"a", ".", "p", "c", "a", "p">>,
      <<"A", ".", "P", "C", "A", "P">>,
      <<"b", ".", "p", "c", "a", "p", "n", "g">>,
      <<"x", ".", "P", "c", "a", "p", "N", "g">>,
      <<".", "p", "c", "a", "p">> }

\* The parser or the aggregator raises: the parser on bytes that are no
\* capture or by a fault, the aggregator by a fault once the parser returned.
LoaderFails == fault = "rdpcap" \/ file.content.kind = "other"
AggregatorFails == ~LoaderFails /\ fault = "analyze_packets"
DetectorFails == ~LoaderFails /\ fault = "detect_syn_flood"

\* C15: when the loader or the aggregator fails the request ends in an error
\* response that holds no part of a result.
C15_NoPartialResult ==
    (Answered /\ calls.rdpcap = 1 /\ (LoaderFails \/ AggregatorFails)) =>
        /\ response.status_code = 500
        /\ DOMAIN response = {"status_code", "detail"}

\* An upload of several chunks that is no capture reached the parser and was
\* answered with an error, the temporary file removed.
C15_Witness ==
    /\ Answered
    /\ calls.rdpcap = 1
    /\ fault = "none"
    /\ file.content.kind = "other"
    /\ calls.read >= 3
    /\ response.status_code = 500
    /\ ~tmp_file.exists

\* C16 as stated: when the detector fails after the loader and the aggregator
\* succeeded, the response is the aggregator's output with no alerts.
C16_DetectorIsolated ==
    (Answered /\ calls.rdpcap = 1 /\ DetectorFails) =>
        /\ response.status_code = 200
        /\ response.body.basic_stats = analysis.basic_stats
        /\ response.body.protocol_stats = analysis.protocol_stats
        /\ response.body.top_talkers = analysis.top_talkers
        /\ response.body.packet_details = analysis.packet_details
        /\ response.body.detections.syn_flood = <<>>

\* C17: with scapy imported, a request whose file name is missing or does
\* not end in .pcap or .pcapng (whatever the case) is answered 400 with no
\* read of the upload, no temporary file and no call of the parser.
C17_BadNameRejectedFirst ==
    (Answered /\ SCAPY_AVAILABLE /\ file.filename \notin CaptureNames) =>
        /\ response.status_code = 400
        /\ calls.read = 0 /\ file_pos = 0
        /\ calls.tmp = 0 /\ ~tmp_file.exists /\ tmp_file.size = 0
        /\ calls.rdpcap = 0

\* A capture with packets under a name with .pcap inside but not at its end.
C17_Witness ==
    /\ Answered
    /\ SCAPY_AVAILABLE
    /\ file.filename = <<"x", ".", "p", "c", "a", "p", ".", "t", "x", "t">>
    /\ file.content.kind = "pcap"
    /\ Len(file.content.packets) > 0
    /\ response.status_code = 400

\* C18 as stated: an upload with the name of a capture and no bytes is
\* answered 400 and the parser is not called.
C18_EmptyUploadRejected ==
    (Answered /\ SCAPY_AVAILABLE /\ file.filename \in CaptureNames
              /\ file.content.size = 0 /\ fault = "none") =>
        /\ response.status_code = 400
        /\ calls.rdpcap = 0

\* C19: without scapy every request is answered 503, with no read of the
\* upload and no temporary file.
C19_UnavailableRejectedFirst ==
    (Answered /\ ~SCAPY_AVAILABLE) =>
        /\ response.status_code = 503
        /\ calls.read = 0 /\ file_pos = 0
        /\ calls.tmp = 0 /\ ~tmp_file.exists /\ tmp_file.size = 0

\* Without scapy, an upload of several chunks under a bad file name is
\* answered 503, not 400.
C19_Witness ==
    /\ Answered
    /\ ~SCAPY_AVAILABLE
    /\ file.filename = <<"x", ".", "p", "c", "a", "p", ".", "t", "x", "t">>
    /\ file.content.size > chunk_size
    /\ response.status_code = 503

\* What the probe says besides the time.
HealthStatus ==
    [ok |-> health_response.ok, module |-> health_response.module,
     analyze_endpoint |-> health_response.analyze_endpoint]

\* C20 as stated: the probe's answer tells whether scapy is imported: the
\* answer given with scapy is not given without it.
C20_HealthReportsCapability ==
    calls.health > 0 =>
        (HealthStatus = [ok |-> TRUE, module |-> "pcap",
                         analyze_endpoint |-> "/pcap/analyze"]
            <=> SCAPY_AVAILABLE)

\* C29 as stated: for a capture with packets, the duration and every
\* relative_time of the preview are at least 0, whatever the order of the
\* times.
C29_NonNegativeTimes ==
    (pc = "analyzed" /\ Len(packets) >= 1) =>
        /\ analysis.basic_stats.duration >= 0
        /\ \A i \in 1..Len(Details) : Details[i].relative_time >= 0

\* C30 as stated: a packet with neither a TCP nor a UDP layer is tallied
\* under the label the preview shows for it.
C30_SameLabelWithoutTcpUdp ==
    pc = "analyzed" =>
        \A i \in Indices :
            (TCP \notin packets[i].layers /\ UDP \notin packets[i].layers) =>
                /\ TallyLabel(packets[i]) = get_protocol_name(packets[i])
                /\ i <= Len(Details) =>
                       /\ Details[i].protocol \in DOMAIN Stats.val
                       /\ Stats.val[Details[i].protocol] >= 1

\* Messages of exceptions that reach "except Exception".
FaultMessages == {"No data could be read!", "Not a supported capture file"}

\* C21 as stated: the detail of a 500 response is the same whatever the
\* message of the exception: it is the detail given for each of FaultMessages.
C21_DetailByCategory ==
    (Answered /\ response.status_code = 500) =>
        \A msg \in FaultMessages :
            InternalError(Raised("Scapy_Exception", msg)).detail = response.detail

\* A ceiling on the bytes accepted, below the largest upload drawn.
Ceiling == LargeUpload - 1

\* C22 as stated, for a ceiling below the largest upload drawn: of an upload
\* above the ceiling no more bytes than the ceiling are written to the
\* temporary file, and the parser is not called on it.
C22_CeilingEnforced ==
    file.content.size > Ceiling =>
        /\ tmp_file.size <= Ceiling
        /\ calls.rdpcap = 0

\* C26 as stated: once a request that created a temporary file is answered,
\* the file no longer exists.
C26_TempFileRemoved ==
    (Answered /\ calls.tmp > 0) => ~tmp_file.exists

\* C25 as stated: a capture whose last record declares more bytes than the
\* file holds is answered with an error, and no result is returned.
C25_TruncatedRejected ==
    (Answered /\ calls.rdpcap = 1 /\ fault = "none"
              /\ file.content.kind = "truncated") =>
        /\ response.status_code >= 400
        /\ "body" \notin DOMAIN response

\* C24: a result of analyze_pcap handed unchanged to the persistence
\* collaborator is stored with its basic_stats, protocol_stats, top_talkers
\* and packet_details unchanged by save_analysis, and with its SYN-flood
\* alerts under syn_flood_detection by save_threats.
C24_ResultStoredUnchanged ==
    (documents.saves = 1 /\ documents.analyses # <<>>) =>
        /\ documents.analyses[1].basic_stats = response.body.basic_stats
        /\ documents.analyses[1].protocol_stats = response.body.protocol_stats
        /\ documents.analyses[1].top_talkers = response.body.top_talkers
        /\ documents.analyses[1].packet_details = response.body.packet_details
        /\ response.body.detections.syn_flood =
               documents.threats[1].syn_flood_detection

(***************************************************************************)
(* Specification: the cached client of core/db/mongodb.py                  *)
(*                                                                         *)
(* get_db and reset_db are called in any order, one call at a time, with   *)
(* any of the configurations below; the server answers the ping or not.    *)
(***************************************************************************)
\* The number of calls of get_db and reset_db together.
MaxDbCalls == 5

GoodUri == "mongodb://db.example:27017"
SrvUri == "mongodb+srv://cluster.example"
BadUri == "http://db.example"

\* None or the empty string where get_db looks for a URI: "not uri" holds
\* for both.
NoUri == ""

\* os.environ of the process: without MONGODB_URI, or with it.
Environs == {<<>>, [MONGODB_URI |-> SrvUri], [MONGODB_URI |-> NoUri]}

\* The configurations handed to get_db.
Configs ==
    {<<>>,
     [mongodb |-> <<>>],
     [mongodb |-> [enabled |-> FALSE, uri |-> GoodUri]],
     [mongodb |-> [enabled |-> TRUE]],
     [mongodb |-> [enabled |-> TRUE, uri |-> NoUri]],
     [mongodb |-> [enabled |-> TRUE, uri |-> GoodUri]],
     [mongodb |-> [enabled |-> TRUE, uri |-> GoodUri, database |-> "appdb"]],
     [mongodb |-> [enabled |-> TRUE, uri |-> BadUri, database |-> "appdb"]]}

\* a or b, for two values that are strings or None.
OrElse(a, b) == IF a # NoUri THEN a ELSE b

\* MongoClient(uri, **kwargs): no connection is made yet; a URI with another
\* scheme raises InvalidURI, a PyMongoError.
MongoClient(uri) ==
    IF uri \in {GoodUri, SrvUri}
    THEN Returned([made |-> TRUE, uri |-> uri, pinged |-> FALSE, closed |-> FALSE])
    ELSE Raised("InvalidURI",
                "Invalid URI scheme: URI must begin with 'mongodb://' or 'mongodb+srv://'")

\* _client.admin.command("ping"): the handshake, which fails with a
\* PyMongoError when no server is selected within the timeout.
Ping(client, server_up) ==
    IF server_up THEN Returned([client EXCEPT !.pinged = TRUE])
    ELSE Raised("ServerSelectionTimeoutError", "No servers found yet")

ConnectError(outcome) ==
    Raised("RuntimeError", "Failed to connect to MongoDB: " \o outcome.msg)

\* _client[dbname]
Database(client, dbname) == [kind |-> "Database", client |-> client, name |-> dbname]

\* get_db returning None.
NoDatabase == [kind |-> "None"]

\* _client after "_client = MongoClient(...)" and the ping: the assignment
\* comes first, so the client stays whether the ping succeeds or not.
CachedAfterPing(created, pinged) ==
    IF Raises(pinged) THEN created.value ELSE pinged.value

\* get_db(cfg): the pair of the outcome and the new value of _client.
get_db(cfg, client, environ, server_up) ==
    LET mcfg == get(cfg, "mongodb", <<>>)
        uri == OrElse(get(environ, "MONGODB_URI", NoUri), get(mcfg, "uri", NoUri))
        created == MongoClient(uri)
        pinged == Ping(created.value, server_up)
        dbname == get(mcfg, "database", "defensedb")
    IN  IF ~get(mcfg, "enabled", FALSE)
        THEN [outcome |-> Returned(NoDatabase), client |-> client]
        ELSE IF uri = NoUri
        THEN [outcome |-> Raised("RuntimeError",
                  "MongoDB enabled but no URI provided. Set MONGODB_URI or mongodb.uri."),
              client |-> client]
        ELSE IF client.made
        THEN [outcome |-> Returned(Database(client, dbname)), client |-> client]
        ELSE IF Raises(created)
        THEN [outcome |-> ConnectError(created), client |-> client]
        ELSE IF Raises(pinged)
        THEN [outcome |-> ConnectError(pinged),
              client |-> CachedAfterPing(created, pinged)]
        ELSE [outcome |-> Returned(Database(pinged.value, dbname)),
              client |-> CachedAfterPing(created, pinged)]

NotInRequest ==
    /\ packets = NotRun
    /\ pc = "library"
    /\ analysis = NotRun
    /\ detections = NotRun
    /\ SCAPY_AVAILABLE = TRUE
    /\ file = NotRun
    /\ fault = "none"
    /\ file_pos = 0
    /\ tmp_file = [exists |-> FALSE, size |-> 0]
    /\ tmp_path = None
    /\ response = NotRun
    /\ health_response = NotRun
    /\ calls = [read |-> 0, tmp |-> 0, rdpcap |-> 0, health |-> 0]

InitMongo ==
    /\ NotInRequest
    /\ documents = NoDocuments
    /\ runs = NoRuns
    /\ users = NoUsers
    /\ \E environ \in Environs : mongo = [NoMongo EXCEPT !.environ = environ]

GetDb ==
    /\ mongo.calls < MaxDbCalls
    /\ \E cfg \in Configs, server_up \in BOOLEAN :
           LET got == get_db(cfg, mongo.client, mongo.environ, server_up)
           IN  mongo' = [mongo EXCEPT !.client = got.client,
                                      !.calls = @ + 1,
                                      !.last = [call |-> "get_db",
                                                outcome |-> got.outcome]]
    /\ UNCHANGED <<packets, pc, analysis, detections, reqvars, documents, runs,
                   users>>

\* reset_db(): the client is closed and forgotten.
ResetDb ==
    /\ mongo.calls < MaxDbCalls
    /\ mongo' = [mongo EXCEPT !.client = NoClient,
                              !.calls = @ + 1,
                              !.last = [call |-> "reset_db"]]
    /\ UNCHANGED <<packets, pc, analysis, detections, reqvars, documents, runs,
                   users>>

NextMongo == GetDb \/ ResetDb

SpecMongo == InitMongo /\ [][NextMongo]_vars

\* get_db has just returned a database handle.
HandleReturned ==
    /\ mongo.last.call = "get_db"
    /\ ~Raises(mongo.last.outcome)
    /\ mongo.last.outcome.value.kind = "Database"

\* C27: with mongodb enabled, get_db returns a database handle only from a
\* client whose initial ping succeeded; a client whose ping failed is not the
\* one a later get_db builds its handle on.
C27_HandleOnlyAfterPing ==
    HandleReturned => mongo.last.outcome.value.client.pinged

(***************************************************************************)
(* Specification: concurrent POST /auth/register                           *)
(*                                                                         *)
(* register is a plain function, which the framework runs in a thread per  *)
(* request.  Each request is cut at its two operations on the collection:  *)
(* find_one and insert_one.  No index of the collection is created by the  *)
(* code.                                                                   *)
(***************************************************************************)
\* The number of requests in progress at the same time.
MaxRegistrations == 2

Whitespace == {" ", "\t", "\n"}

\* str.strip()
RECURSIVE strip(_)
strip(s) ==
    IF s = <<>> THEN s
    ELSE IF Head(s) \in Whitespace THEN strip(Tail(s))
    ELSE IF s[Len(s)] \in Whitespace THEN strip(SubSeq(s, 1, Len(s) - 1))
    ELSE s

\* The bodies of the requests: an email (a sequence of characters) and a
\* password, either of which may be absent.
Payloads ==
    {[email |-> <<"a", "@", "x">>, password |-> "pw1"],
     [email |-> <<" ", "A", "@", "X", "\n">>, password |-> "pw2"],
     [email |-> <<"b", "@", "x">>, password |-> "pw1"],
     [email |-> <<" ", " ">>, password |-> "pw1"],
     [email |-> <<"a", "@", "x">>, password |-> ""],
     [email |-> <<"b", "@", "x">>],
     [password |-> "pw1"]}

\* bcrypt.hashpw with a fresh salt, kept as the password it was made from.
hash_password(password) == [bcrypt |-> password]

\* The user registered before the requests arrive.
ExistingUser == [email |-> <<"a", "@", "x">>, password_hash |-> hash_password("old")]

\* col.find_one({"email": email}): whether a document is found.
find_one(docs, email) == \E i \in 1..Len(docs) : docs[i].email = email

\* A request that arrived and has not started.
Arrived(payload) ==
    [payload |-> payload, pc |-> "request", email |-> <<>>, password |-> "",
     response |-> [status_code |-> 0]]

InitRegister ==
    /\ NotInRequest
    /\ documents = NoDocuments
    /\ runs = NoRuns
    /\ mongo = NoMongo
    /\ \E available \in BOOLEAN, docs \in {<<>>, <<ExistingUser>>},
          bodies \in [1..MaxRegistrations -> Payloads] :
           users = [available |-> available, docs |-> docs,
                    reqs |-> [r \in 1..MaxRegistrations |-> Arrived(bodies[r])]]

\* register from its start to the answer of find_one.
RegisterFind(r) ==
    /\ users.reqs[r].pc = "request"
    /\ LET payload == users.reqs[r].payload
           email == lower(strip(get(payload, "email", <<>>)))
           password == get(payload, "password", "")
           rejected ==
               IF ~users.available
               THEN HTTPException(503, "Auth database unavailable")
               ELSE IF email = <<>> \/ password = ""
               THEN HTTPException(400, "Email and password are required")
               ELSE IF find_one(users.docs, email)
               THEN HTTPException(400, "User already exists")
               ELSE [status_code |-> 0]
       IN  users' = [users EXCEPT
               !.reqs[r] = [@ EXCEPT
                   !.email = email,
                   !.password = password,
                   !.response = rejected,
                   !.pc = IF rejected.status_code = 0 THEN "insert" ELSE "done"]]
    /\ UNCHANGED <<packets, pc, analysis, detections, reqvars, documents, runs,
                   mongo>>

\* The rest of register: insert_one and the answer.
RegisterInsert(r) ==
    /\ users.reqs[r].pc = "insert"
    /\ users' = [users EXCEPT
           !.docs = Append(@, [email |-> users.reqs[r].email,
                               password_hash |->
                                   hash_password(users.reqs[r].password)]),
           !.reqs[r] = [@ EXCEPT
               !.response = Success([ok |-> TRUE, message |-> "Registered"]),
               !.pc = "done"]]
    /\ UNCHANGED <<packets, pc, analysis, detections, reqvars, documents, runs,
                   mongo>>

NextRegister ==
    \E r \in 1..MaxRegistrations : RegisterFind(r) \/ RegisterInsert(r)

SpecRegister == InitRegister /\ [][NextRegister]_vars

\* C28: whatever the interleaving of concurrent registrations, the users
\* collection holds at most one document per normalized email.
C28_OneDocumentPerEmail ==
    \A i, j \in 1..Len(users.docs) :
        i # j => users.docs[i].email # users.docs[j].email

(***************************************************************************)
(* Specification: invocations of the analysis functions side by side       *)
(*                                                                         *)
(* Several invocations of analyze_packets and detect_syn_flood, each on    *)
(* its own capture, advance one packet at a time in any order.  Each       *)
(* invocation keeps its counters in its own frame.                         *)
(***************************************************************************)
\* The number of invocations in progress at the same time.
MaxRuns == 2

Functions == {"analyze_packets", "detect_syn_flood"}

\* The captures the invocations are given.
RunCaptures ==
    {<<>>,
     AggCapture(3, 5, 2, "skip", "zigzag"),
     SynCapture(MinSynCount, 1, 0, "syn_first")}

\* The counters either function creates before its loop.
NewCounters == [agg |-> AggStart, scan |-> ScanStart]

\* All invocations count in the same frame.
FrameOf_Shared(r) == 1

\* The frame holding the locals of invocation r.
FrameOf(r) == r

\* What analyze_packets returns after its loop, from the capture and the
\* counters.
AnalysisOf(pkts, acc) ==
    LET start_time == pkts[1].time
        end_time == pkts[Len(pkts)].time
        duration == RoundDiv(end_time - start_time, 10000)
        all_ips == DOMAIN acc.source_counts.val \cup DOMAIN acc.dest_counts.val
        top_talkers == most_common(acc.source_counts, TopTalkersLen)
        first == SubSeq(pkts, 1, IF Len(pkts) < PreviewLen THEN Len(pkts)
                                 ELSE PreviewLen)
        packet_details == [i \in 1..Len(first) |-> PacketDetail(first[i], start_time)]
    IN  [basic_stats |-> [total_packets |-> Len(pkts),
                          duration |-> duration,
                          unique_ips |-> Cardinality(all_ips),
                          total_bytes |-> acc.total_bytes],
         protocol_stats |-> acc.protocol_counter,
         top_talkers |-> top_talkers,
         packet_details |-> packet_details]

\* What the function returns after its loop.
ResultOf(fn, pkts, frame) ==
    IF fn = "detect_syn_flood" THEN AlertsFrom(frame.scan, 1, <<>>)
    ELSE AnalysisOf(pkts, frame.agg)

\* The function applied to the capture in one piece.
Apply(fn, pkts) ==
    IF fn = "detect_syn_flood" THEN detect_syn_flood(pkts) ELSE analyze_packets(pkts)

\* An invocation that is called and has not started; overlapped tells whether
\* another invocation was in its loop while this one ran.
Called(fn, pkts) ==
    [fn |-> fn, capture |-> pkts, pc |-> "call", i |-> 1, overlapped |-> FALSE,
     result |-> NotRun]

InitRuns ==
    /\ NotInRequest
    /\ documents = NoDocuments
    /\ mongo = NoMongo
    /\ users = NoUsers
    /\ \E fns \in [1..MaxRuns -> Functions], captures \in [1..MaxRuns -> RunCaptures] :
           runs = [invs |-> [r \in 1..MaxRuns |-> Called(fns[r], captures[r])],
                   frames |-> [r \in 1..MaxRuns |-> NewCounters]]

\* Whether some other invocation is in its loop.
OthersInLoop(r) == \E o \in 1..MaxRuns : o # r /\ runs.invs[o].pc = "loop"

\* The invocations with those in their loop marked as overlapped by r.
MarkOverlap(invs, r) ==
    [o \in 1..MaxRuns |->
        IF o # r /\ invs[o].pc = "loop" THEN [invs[o] EXCEPT !.overlapped = TRUE]
        ELSE invs[o]]

\* The function up to its loop: analyze_packets returns at once for no
\* packets, otherwise the counters are created.
StartRun(r) ==
    /\ runs.invs[r].pc = "call"
    /\ LET inv == runs.invs[r] IN
       IF inv.fn = "analyze_packets" /\ Len(inv.capture) = 0
       THEN runs' = [runs EXCEPT
                !.invs[r] = [@ EXCEPT !.pc = "done",
                                      !.result = Apply(inv.fn, inv.capture)]]
       ELSE runs' = [runs EXCEPT
                !.invs = MarkOverlap([@ EXCEPT ![r].pc = "loop",
                                               ![r].overlapped = OthersInLoop(r)], r),
                !.frames[FrameOf(r)] = NewCounters]
    /\ UNCHANGED <<packets, pc, analysis, detections, reqvars, documents, mongo,
                   users>>

\* One iteration of the loop over the packets.
StepRun(r) ==
    /\ runs.invs[r].pc = "loop"
    /\ runs.invs[r].i <= Len(runs.invs[r].capture)
    /\ LET inv == runs.invs[r]
           packet == inv.capture[inv.i]
       IN  runs' = [runs EXCEPT
               !.invs[r].i = @ + 1,
               !.frames[FrameOf(r)] =
                   IF inv.fn = "detect_syn_flood"
                   THEN [@ EXCEPT !.scan = ScanPacket(@, packet)]
                   ELSE [@ EXCEPT !.agg = AggPacket(@, packet)]]
    /\ UNCHANGED <<packets, pc, analysis, detections, reqvars, documents, mongo,
                   users>>

\* The function after its loop, to its return.
FinishRun(r) ==
    /\ runs.invs[r].pc = "loop"
    /\ runs.invs[r].i > Len(runs.invs[r].capture)
    /\ LET inv == runs.invs[r] IN
       runs' = [runs EXCEPT
           !.invs[r] = [@ EXCEPT
               !.pc = "done",
               !.result = ResultOf(inv.fn, inv.capture, runs.frames[FrameOf(r)])]]
    /\ UNCHANGED <<packets, pc, analysis, detections, reqvars, documents, mongo,
                   users>>

NextRuns == \E r \in 1..MaxRuns : StartRun(r) \/ StepRun(r) \/ FinishRun(r)

SpecRuns == InitRuns /\ [][NextRuns]_vars

\* Invocation r has returned.
Returns(r) == runs.invs[r].pc = "done"

\* C23: what analyze_packets and detect_syn_flood return is a function of the
\* packet sequence alone: an invocation that ran side by side with others
\* returns what the function gives for its capture on its own, and two
\* invocations of the same function on the same capture return the same.
C23_FunctionOfPackets ==
    /\ \A r \in 1..MaxRuns :
           Returns(r) =>
               runs.invs[r].result = Apply(runs.invs[r].fn, runs.invs[r].capture)
    /\ \A r, o \in 1..MaxRuns :
           (/\ Returns(r)
            /\ Returns(o)
            /\ runs.invs[r].fn = runs.invs[o].fn
            /\ runs.invs[r].capture = runs.invs[o].capture) =>
               runs.invs[r].result = runs.invs[o].result

\* Two invocations of analyze_packets on the same capture of three packets
\* overlapped and both returned.
C23_Witness ==
    /\ \A r \in 1..2 :
           /\ Returns(r)
           /\ runs.invs[r].fn = "analyze_packets"
           /\ runs.invs[r].overlapped
           /\ Len(runs.invs[r].capture) = 3
    /\ runs.invs[1].capture = runs.invs[2].capture

====
